---- MODULE Spec2Model ----
(***************************************************************************)
(* Model of plugins/modules/release.py: run_module(), the Ansible module   *)
(* that resolves one release on a GitHub Enterprise server and downloads   *)
(* its (selected) assets.  One run is a linear procedure; pc is the        *)
(* position in run_module.  The remote server and the local filesystem are *)
(* the environment.  Strings built with f-strings are modelled as the      *)
(* sequence of their parts, so two built strings are equal exactly when    *)
(* their parts are.                                                        *)
(*                                                                         *)
(* Environment assumptions: asset names are plain file names (the server   *)
(* never puts a path separator into an asset name), the working directory  *)
(* does not change during a run, and the remote answers a given request    *)
(* the same way every time it is asked (remoteMeta, remoteAsset).          *)
(***************************************************************************)
EXTENDS Integers, Sequences, FiniteSets, TLC

VARIABLES
    params,              \* module.params and module.check_mode
    pc,                  \* position in run_module
    r,                   \* the last response object (local r)
    assets_to_download,  \* the insertion-ordered dict {id: name}, as a sequence of <<id, name>>
    idx,                 \* position of the for loop of line 151 in assets_to_download
    parent_dir,          \* local parent_dir (unbound before line 164)
    f,                   \* the open file object of the with block, if any
    pos,                 \* how many chunks of r have been consumed by the for loop of line 166
    result,              \* the dict result
    outcome,             \* how the process ended: "none", "exit", "fail", "crash"
    parsed,              \* whether r.json() has been called
    trace,               \* the I/O the run has performed, in order
    fs,                  \* the local filesystem: path -> file
    fs0,                 \* the filesystem as it was when the run started
    remoteMeta,          \* the server's answer to the release request
    remoteAsset,         \* the server's answer to each asset request, by id
    run,                 \* 1 for the first invocation, 2 for a repeated one
    prev                 \* what the first invocation left behind

vars == <<params, pc, r, assets_to_download, idx, parent_dir, f, pos, result,
          outcome, parsed, trace, fs, fs0, remoteMeta, remoteAsset, run, prev>>

-----------------------------------------------------------------------------
(* Bounds and input sets *)

MaxAssets == 2

Names == {"a", "A"}
Ids == {1, 2, 3}
Cwd == "cwd"
ExistingDirs == {Cwd, "out"}
Paths == {<<d, n>> : d \in ExistingDirs, n \in Names}

Some(v) == [some |-> TRUE, val |-> v]
NoneStr == [some |-> FALSE, val |-> ""]
NoneList == [some |-> FALSE, val |-> <<>>]
NonePath == [some |-> FALSE, val |-> <<>>]

SeqsUpTo(S, n) == UNION {[1..k -> S] : k \in 0..n}

Asset(i, n) == [id |-> i, name |-> n]
AssetLists == SeqsUpTo({Asset(i, n) : i \in Ids, n \in Names}, MaxAssets)

FilterLists == {<<>>, <<"a">>, <<"A">>, <<"zz">>, <<"zz", "A">>, <<"a", "A">>}

Tags == {NoneStr, Some("v1")}
OutputPaths == {NoneStr, Some("out"), Some("nodir")}
AssetNamesParams == {NoneList} \cup {Some(l) : l \in FilterLists}

Params == [check_mode : BOOLEAN, tag : Tags, output_path : OutputPaths,
           asset_names : AssetNamesParams]

(* Responses.  kind "connerr": requests.get raises ConnectionError.        *)
(* json: what r.json() yields: "release" (an object with key assets),      *)
(* "error" (an object without it), "notjson" (r.json() raises).            *)
(* broken: the streamed body ends with an exception after its chunks.      *)
Resp(k, s, j, a, c, b) ==
    [kind |-> k, status |-> s, json |-> j, assets |-> a, chunks |-> c, broken |-> b]
NoResp == Resp("unset", 0, "notjson", <<>>, <<>>, FALSE)
ConnErr == Resp("connerr", 0, "notjson", <<>>, <<>>, FALSE)

MetaResponses ==
    {ConnErr}
    \cup {Resp("http", 200, "release", l, <<>>, FALSE) : l \in AssetLists}
    \cup {Resp("http", s, "error", <<>>, <<>>, FALSE) : s \in {401, 404, 403}}
    \cup {Resp("http", 500, "notjson", <<>>, <<>>, FALSE)}

AssetResponses ==
    {ConnErr,
     Resp("http", 500, "notjson", <<>>, <<"e">>, FALSE),
     Resp("http", 200, "notjson", <<>>, <<"x", "y">>, FALSE),
     Resp("http", 200, "notjson", <<>>, <<"y">>, FALSE),
     Resp("http", 200, "notjson", <<>>, <<"x">>, TRUE)}

File(e, d) == [exists |-> e, data |-> d]
Absent == File(FALSE, <<>>)
Stale == File(TRUE, <<"old">>)

Ev(op, arg) == [op |-> op, arg |-> arg]

Result0 == [changed |-> FALSE, msg |-> <<"">>]

-----------------------------------------------------------------------------
(* Pure parts of run_module *)

IdStr(i) == CASE i = 1 -> "1" [] i = 2 -> "2" [] i = 3 -> "3" [] OTHER -> "n"

GithubEndpointUrl == <<"https://ghe", "/api/v3/repos/", "eub", "/", "repo">>

ReleaseUrl(tag) ==
    IF ~tag.some
    THEN GithubEndpointUrl \o <<"/releases/latest">>
    ELSE GithubEndpointUrl \o <<"/releases/tags/", tag.val>>

AssetUrl(asset_id) == GithubEndpointUrl \o <<"/releases/assets/", IdStr(asset_id)>>

NoMsg == <<>>
StatusMsgNo404(status) == IF status = 401 THEN <<"401 Unauthorized">> ELSE NoMsg
StatusMsg(status) ==
    IF status = 401 THEN <<"401 Unauthorized">>
    ELSE IF status = 404 THEN <<"404 Not Found">>
    ELSE NoMsg

Lower(s) == IF s = "A" THEN "a" ELSE s
InListIgnoreCase(x, l) == \E j \in 1..Len(l) : Lower(l[j]) = Lower(x)
InList(x, l) == \E j \in 1..Len(l) : l[j] = x

SkipTruthy(name, asset_names) ==
    asset_names.some /\ asset_names.val # <<>> /\ ~InList(name, asset_names.val)
Skip(name, asset_names) == asset_names.some /\ ~InList(name, asset_names.val)

DictUpdateByName(d, k, v) ==
    IF \E i \in 1..Len(d) : d[i][2] = v
    THEN [i \in 1..Len(d) |-> IF d[i][2] = v THEN <<k, v>> ELSE d[i]]
    ELSE Append(d, <<k, v>>)
DictUpdate(d, k, v) ==
    IF \E i \in 1..Len(d) : d[i][1] = k
    THEN [i \in 1..Len(d) |-> IF d[i][1] = k THEN <<k, v>> ELSE d[i]]
    ELSE Append(d, <<k, v>>)

RECURSIVE SelectFrom(_, _, _, _)
SelectFrom(assets, asset_names, i, d) ==
    IF i > Len(assets) THEN d
    ELSE IF Skip(assets[i].name, asset_names)
         THEN SelectFrom(assets, asset_names, i + 1, d)
         ELSE SelectFrom(assets, asset_names, i + 1,
                         DictUpdate(d, assets[i].id, assets[i].name))

Selected(assets, asset_names) == SelectFrom(assets, asset_names, 1, <<>>)

DownloadFailed404(status) == status = 404
DownloadFailed(status) == status # 200

ParentDirCwd(output_path) == Cwd
ParentDir(output_path) == IF ~output_path.some THEN Cwd ELSE output_path.val

JoinPath(dir, name) == <<dir, name>>

OpenAb(files, path) ==
    [files EXCEPT ![path] = IF @.exists THEN @ ELSE File(TRUE, <<>>)]
OpenWb(files, path) == [files EXCEPT ![path] = File(TRUE, <<>>)]

WriteTo(files, path, chunk) ==
    [files EXCEPT ![path] = File(TRUE, Append(@.data, chunk))]

CheckModeIgnored(check_mode) == FALSE
CheckModeOn(check_mode) == check_mode

-----------------------------------------------------------------------------
(* Ways out of run_module.  tr is the trace up to the call; cont is the    *)
(* statement after the call, which exit_json and fail_json never reach.    *)

ExitJson(res, tr, cont) ==
    /\ result' = res
    /\ outcome' = "exit"
    /\ trace' = Append(tr, Ev("exit_json", res.msg))
    /\ pc' = "done"

FailJsonReturns(res, tr, cont) ==
    /\ result' = res
    /\ outcome' = "fail"
    /\ trace' = Append(tr, Ev("fail_json", res.msg))
    /\ pc' = cont
FailJson(res, tr, cont) ==
    /\ result' = res
    /\ outcome' = "fail"
    /\ trace' = Append(tr, Ev("fail_json", res.msg))
    /\ pc' = "done"

(* an exception nothing catches: the interpreter ends with a traceback     *)
Raise(exc, tr) ==
    /\ outcome' = "crash"
    /\ trace' = Append(tr, Ev("raise", <<exc>>))
    /\ pc' = "done"
    /\ UNCHANGED result

-----------------------------------------------------------------------------
Init ==
    /\ params \in Params
    /\ pc = "start"
    /\ r = NoResp
    /\ assets_to_download = <<>>
    /\ idx = 1
    /\ parent_dir = NoneStr
    /\ f = NonePath
    /\ pos = 0
    /\ result = Result0
    /\ outcome = "none"
    /\ parsed = FALSE
    /\ trace = <<>>
    /\ fs \in {[p \in Paths |-> Absent], [p \in Paths |-> Stale]}
    /\ fs0 = fs
    /\ remoteMeta = NoResp
    /\ remoteAsset = [i \in Ids |-> NoResp]
    /\ run = 1
    /\ prev = [outcome |-> "none", result |-> Result0, fs |-> fs, trace |-> <<>>]

(* lines 98-103 *)
CheckMode ==
    /\ pc = "start"
    /\ IF CheckModeOn(params.check_mode)
       THEN ExitJson(result, trace, "get_release")
       ELSE /\ pc' = "get_release"
            /\ UNCHANGED <<result, outcome, trace>>
    /\ UNCHANGED <<params, r, assets_to_download, idx, parent_dir, f, pos, parsed,
                   fs, fs0, remoteMeta, remoteAsset, run, prev>>

(* lines 112-135 *)
GetRelease ==
    /\ pc = "get_release"
    /\ \E resp \in (IF remoteMeta.kind = "unset" THEN MetaResponses ELSE {remoteMeta}) :
         LET url == ReleaseUrl(params.tag)
             tr == Append(trace, Ev("get", url))
         IN /\ remoteMeta' = resp
            /\ IF resp.kind = "connerr"
               THEN /\ FailJson([result EXCEPT !.msg = <<"Failed to connect ">> \o url],
                                tr, "get_assets")
                    /\ UNCHANGED r
               ELSE /\ r' = resp
                    /\ IF StatusMsg(resp.status) # NoMsg
                       THEN FailJson([result EXCEPT !.msg = StatusMsg(resp.status)],
                                     tr, "get_assets")
                       ELSE /\ pc' = "get_assets"
                            /\ trace' = tr
                            /\ UNCHANGED <<result, outcome>>
    /\ UNCHANGED <<params, assets_to_download, idx, parent_dir, f, pos, parsed,
                   fs, fs0, remoteAsset, run, prev>>

(* lines 137-149 *)
GetAssets ==
    /\ pc = "get_assets"
    /\ parsed' = TRUE
    /\ IF r.json = "notjson"
       THEN /\ Raise("JSONDecodeError", trace)
            /\ UNCHANGED assets_to_download
       ELSE IF r.json = "error"
       THEN /\ Raise("KeyError", trace)
            /\ UNCHANGED assets_to_download
       ELSE LET sel == Selected(r.assets, params.asset_names)
            IN /\ assets_to_download' = sel
               /\ IF Len(sel) = 0
                  THEN FailJson([result EXCEPT !.msg = <<"There is no asset to download">>],
                                trace, "download")
                  ELSE /\ pc' = "download"
                       /\ UNCHANGED <<result, outcome, trace>>
    /\ UNCHANGED <<params, r, idx, parent_dir, f, pos, fs, fs0, remoteMeta,
                   remoteAsset, run, prev>>

(* lines 151-163: the request of one iteration and its status check *)
Download ==
    /\ pc = "download"
    /\ idx <= Len(assets_to_download)
    /\ LET asset_id == assets_to_download[idx][1]
           asset_name == assets_to_download[idx][2]
           tr == Append(trace, Ev("get", AssetUrl(asset_id)))
       IN \E resp \in (IF remoteAsset[asset_id].kind = "unset"
                       THEN AssetResponses ELSE {remoteAsset[asset_id]}) :
            /\ remoteAsset' = [remoteAsset EXCEPT ![asset_id] = resp]
            /\ IF resp.kind = "connerr"
               THEN /\ Raise("ConnectionError", tr)
                    /\ UNCHANGED r
               ELSE /\ r' = resp
                    /\ IF DownloadFailed(resp.status)
                       THEN FailJson([result EXCEPT
                                         !.msg = <<"Failed to download ", asset_name>>],
                                     tr, "open")
                       ELSE /\ pc' = "open"
                            /\ trace' = tr
                            /\ UNCHANGED <<result, outcome>>
    /\ UNCHANGED <<params, assets_to_download, idx, parent_dir, f, pos, parsed,
                   fs, fs0, remoteMeta, run, prev>>

(* lines 164-165 *)
OpenFile ==
    /\ pc = "open"
    /\ LET dir == ParentDir(params.output_path)
           path == JoinPath(dir, assets_to_download[idx][2])
       IN /\ parent_dir' = Some(dir)
          /\ IF dir \notin ExistingDirs
             THEN /\ Raise("FileNotFoundError", trace)
                  /\ UNCHANGED <<f, pos, fs>>
             ELSE /\ fs' = OpenWb(fs, path)
                  /\ f' = Some(path)
                  /\ pos' = 0
                  /\ trace' = Append(trace, Ev("open", path))
                  /\ pc' = "write"
                  /\ UNCHANGED <<result, outcome>>
    /\ UNCHANGED <<params, r, assets_to_download, idx, parsed, fs0, remoteMeta,
                   remoteAsset, run, prev>>

(* lines 166-167: one chunk *)
WriteChunk ==
    /\ pc = "write"
    /\ pos < Len(r.chunks)
    /\ fs' = WriteTo(fs, f.val, r.chunks[pos + 1])
    /\ pos' = pos + 1
    /\ trace' = Append(trace, Ev("write", <<r.chunks[pos + 1]>>))
    /\ UNCHANGED <<params, pc, r, assets_to_download, idx, parent_dir, f, result,
                   outcome, parsed, fs0, remoteMeta, remoteAsset, run, prev>>

(* line 166: the stream raises; the with block closes the file on the way out *)
StreamBroken ==
    /\ pc = "write"
    /\ pos = Len(r.chunks)
    /\ r.broken
    /\ f' = NonePath
    /\ Raise("ChunkedEncodingError", Append(trace, Ev("close", f.val)))
    /\ UNCHANGED <<params, r, assets_to_download, idx, parent_dir, pos, parsed,
                   fs, fs0, remoteMeta, remoteAsset, run, prev>>

(* end of the with block of line 165, and on to the next asset *)
CloseFile ==
    /\ pc = "write"
    /\ pos = Len(r.chunks)
    /\ ~r.broken
    /\ f' = NonePath
    /\ trace' = Append(trace, Ev("close", f.val))
    /\ idx' = idx + 1
    /\ pc' = "download"
    /\ UNCHANGED <<params, r, assets_to_download, parent_dir, pos, result, outcome,
                   parsed, fs, fs0, remoteMeta, remoteAsset, run, prev>>

(* lines 169-170 *)
Complete ==
    /\ pc = "download"
    /\ idx > Len(assets_to_download)
    /\ ExitJson([result EXCEPT
                    !.msg = <<"Completed to download assets on ", parent_dir.val>>],
                trace, "done")
    /\ UNCHANGED <<params, r, assets_to_download, idx, parent_dir, f, pos, parsed,
                   fs, fs0, remoteMeta, remoteAsset, run, prev>>

Next ==
    \/ CheckMode
    \/ GetRelease
    \/ GetAssets
    \/ Download
    \/ OpenFile
    \/ WriteChunk
    \/ StreamBroken
    \/ CloseFile
    \/ Complete

Spec == Init /\ [][Next]_vars

(* the host runs the module a second time: same parameters, same remote,   *)
(* the filesystem as the first run left it                                 *)
Rerun ==
    /\ pc = "done"
    /\ run = 1
    /\ run' = 2
    /\ prev' = [outcome |-> outcome, result |-> result, fs |-> fs, trace |-> trace]
    /\ pc' = "start"
    /\ r' = NoResp
    /\ assets_to_download' = <<>>
    /\ idx' = 1
    /\ parent_dir' = NoneStr
    /\ f' = NonePath
    /\ pos' = 0
    /\ result' = Result0
    /\ outcome' = "none"
    /\ parsed' = FALSE
    /\ trace' = <<>>
    /\ fs0' = fs
    /\ UNCHANGED <<params, fs, remoteMeta, remoteAsset>>

NextTwice ==
    \/ Next
    \/ Rerun

SpecTwice == Init /\ [][NextTwice]_vars

TypeOK ==
    /\ params \in Params
    /\ pc \in {"start", "get_release", "get_assets", "download", "open", "write", "done"}
    /\ outcome \in {"none", "exit", "fail", "crash"}
    /\ result.changed \in BOOLEAN
    /\ run \in {1, 2}
    /\ idx \in 1..(Len(assets_to_download) + 1)

-----------------------------------------------------------------------------
(* Vocabulary of the properties, stated on what an observer sees: the     *)
(* parameters, the remote's answers, the I/O trace, the filesystem and     *)
(* the outcome.                                                            *)

NoAssetMsg == <<"There is no asset to download">>

\* the release endpoint of the specification, section 4.1
ExpectedReleaseUrl ==
    IF params.tag.some
    THEN <<"https://ghe", "/api/v3/repos/", "eub", "/", "repo", "/releases/tags/",
           params.tag.val>>
    ELSE <<"https://ghe", "/api/v3/repos/", "eub", "/", "repo", "/releases/latest">>

\* the destination directory: output_path if given, else the working directory
DestDir == IF params.output_path.some THEN params.output_path.val ELSE "cwd"

ReleaseRequested == trace # <<>> /\ trace[1].op = "get"
ReleaseParsedOk == remoteMeta.kind = "http" /\ remoteMeta.json = "release"
SelectionDone == ReleaseRequested /\ pc \notin {"start", "get_release", "get_assets"}

Matches(name) ==
    \/ ~params.asset_names.some
    \/ \E j \in 1..Len(params.asset_names.val) : params.asset_names.val[j] = name

IsAssetGet(e) == e.op = "get" /\ \E x \in Ids : e.arg = AssetUrl(x)
IsOpen(e) == e.op = "open"
IsTerminal(e) == e.op \in {"exit_json", "fail_json", "raise"}
AssetGets(tr) == SelectSeq(tr, IsAssetGet)
Opens(tr) == SelectSeq(tr, IsOpen)

SelId(i) == assets_to_download[i][1]
SelName(i) == assets_to_download[i][2]
DistinctNames(k) == \A i, j \in 1..k : i # j => SelName(i) # SelName(j)

\* position p of the trace is the request of an asset whose answer was then
\* written whole: open, every chunk in order, close
WrittenAt(p, x, name) ==
    LET c == remoteAsset[x].chunks
        n == Len(c)
    IN /\ p + n + 2 <= Len(trace)
       /\ trace[p] = Ev("get", AssetUrl(x))
       /\ trace[p + 1] = Ev("open", <<DestDir, name>>)
       /\ \A q \in 1..n : trace[p + 1 + q] = Ev("write", <<c[q]>>)
       /\ trace[p + n + 2] = Ev("close", <<DestDir, name>>)

-----------------------------------------------------------------------------
\* C1: when the download of asset k of the selection is answered with a status
\* other than 200, the run ends as a failure with message "Failed to download
\* {name of k}", the asset requests issued are exactly those of assets 1..k,
\* nothing is opened after the request of k, the files of assets 1..k-1 hold the
\* full content received and the file of asset k is as it was before the run.
C1_Failed(k) ==
    /\ SelectionDone
    /\ k \in 1..Len(assets_to_download)
    /\ \E p \in 1..Len(trace) : trace[p] = Ev("get", AssetUrl(SelId(k)))
    /\ remoteAsset[SelId(k)].kind = "http"
    /\ remoteAsset[SelId(k)].status # 200

C1_FailedDownloadAborts ==
    \A k \in 1..Len(assets_to_download) :
        C1_Failed(k) =>
            /\ pc = "done"
            /\ outcome = "fail"
            /\ result.msg = <<"Failed to download ", SelName(k)>>
            /\ AssetGets(trace) = [j \in 1..k |-> Ev("get", AssetUrl(SelId(j)))]
            /\ trace[Len(trace) - 1] = Ev("get", AssetUrl(SelId(k)))
            /\ Len(Opens(trace)) = k - 1
            /\ DistinctNames(k) =>
                 /\ \A j \in 1..(k - 1) :
                       fs[<<DestDir, SelName(j)>>] =
                           File(TRUE, remoteAsset[SelId(j)].chunks)
                 /\ DestDir \in ExistingDirs =>
                       fs[<<DestDir, SelName(k)>>] = fs0[<<DestDir, SelName(k)>>]

C1_Witness ==
    /\ C1_Failed(2)
    /\ DistinctNames(2)
    /\ pc = "done"
    /\ fs0[<<DestDir, SelName(2)>>] = Stale
    /\ fs[<<DestDir, SelName(1)>>] = File(TRUE, <<"x", "y">>)

\* C2: when the selection is empty (no assets, an empty filter, or no asset name
\* in the filter) the run fails with "There is no asset to download", its only
\* request is the release request, and the filesystem is untouched.
C2_EmptyCase ==
    /\ SelectionDone
    /\ ReleaseParsedOk
    /\ \/ remoteMeta.assets = <<>>
       \/ /\ params.asset_names.some
          /\ \A i \in 1..Len(remoteMeta.assets) :
               \A j \in 1..Len(params.asset_names.val) :
                   params.asset_names.val[j] # remoteMeta.assets[i].name

C2_EmptySelectionFails ==
    C2_EmptyCase =>
        /\ pc = "done"
        /\ outcome = "fail"
        /\ result.msg = NoAssetMsg
        /\ trace = <<Ev("get", ExpectedReleaseUrl), Ev("fail_json", NoAssetMsg)>>
        /\ fs = fs0

C2_Witness ==
    /\ C2_EmptyCase
    /\ params.asset_names = Some(<<>>)
    /\ Len(remoteMeta.assets) = 2
    /\ fs0 = [p \in Paths |-> Stale]

\* C3: a connection failure of the release request gives the failure "Failed to
\* connect {url requested}", status 401 gives "401 Unauthorized", status 404 gives
\* "404 Not Found"; the body is not parsed, the release request is the only
\* request and no file is written.
C3_ResolutionFailed ==
    /\ ReleaseRequested
    /\ \/ remoteMeta.kind = "connerr"
       \/ remoteMeta.kind = "http" /\ remoteMeta.status \in {401, 404}

C3_ResolutionFailureFails ==
    C3_ResolutionFailed =>
        /\ pc = "done"
        /\ outcome = "fail"
        /\ trace[1] = Ev("get", ExpectedReleaseUrl)
        /\ result.msg = CASE remoteMeta.kind = "connerr" ->
                                 <<"Failed to connect ">> \o trace[1].arg
                          [] remoteMeta.kind = "http" /\ remoteMeta.status = 401 ->
                                 <<"401 Unauthorized">>
                          [] OTHER -> <<"404 Not Found">>
        /\ ~parsed
        /\ trace = <<trace[1], Ev("fail_json", result.msg)>>
        /\ fs = fs0

C3_Witness ==
    /\ C3_ResolutionFailed
    /\ remoteMeta.status = 404
    /\ params.tag.some
    /\ pc = "done"

\* C4: with no filter and a release whose asset ids are distinct, the selection
\* is the release's asset list: one entry per asset, in the original order.
C4_DistinctIds ==
    \A i, j \in 1..Len(remoteMeta.assets) :
        i # j => remoteMeta.assets[i].id # remoteMeta.assets[j].id

C4_NoFilterSelectsAll ==
    (SelectionDone /\ ReleaseParsedOk /\ ~params.asset_names.some /\ C4_DistinctIds) =>
        assets_to_download =
            [i \in 1..Len(remoteMeta.assets) |->
                <<remoteMeta.assets[i].id, remoteMeta.assets[i].name>>]

C4_Witness ==
    /\ SelectionDone
    /\ ReleaseParsedOk
    /\ ~params.asset_names.some
    /\ C4_DistinctIds
    /\ Len(remoteMeta.assets) = 2
    /\ remoteMeta.assets[1].name = remoteMeta.assets[2].name
    /\ remoteMeta.assets[1].id > remoteMeta.assets[2].id

\* C5: with a filter, every selected entry is an asset of the release whose name
\* equals some entry of the filter, and a filter entry that matches no asset is
\* no error: as long as some asset matches, the selection is not empty and the
\* run does not report an empty selection.
C5_FilterExactMatch ==
    (SelectionDone /\ ReleaseParsedOk /\ params.asset_names.some) =>
        /\ \A i \in 1..Len(assets_to_download) :
              /\ \E j \in 1..Len(params.asset_names.val) :
                    params.asset_names.val[j] = SelName(i)
              /\ \E a \in 1..Len(remoteMeta.assets) :
                    /\ remoteMeta.assets[a].id = SelId(i)
                    /\ remoteMeta.assets[a].name = SelName(i)
        /\ (\E a \in 1..Len(remoteMeta.assets) : Matches(remoteMeta.assets[a].name)) =>
              /\ assets_to_download # <<>>
              /\ result.msg # NoAssetMsg
              /\ Len(trace) >= 2 => trace[2].op = "get"

C5_Witness ==
    /\ SelectionDone
    /\ ReleaseParsedOk
    /\ params.asset_names = Some(<<"zz", "A">>)
    /\ Len(remoteMeta.assets) = 2
    /\ remoteMeta.assets[1].name = "a"
    /\ remoteMeta.assets[2].name = "A"
    /\ Len(assets_to_download) = 1
    /\ pc = "done"
    /\ outcome = "exit"

\* C6: a finished run has the success outcome "Completed to download assets on
\* {dir}" exactly when the release was resolved, the selection was not empty and
\* every selected asset was answered 200 and written whole; dir is output_path
\* if given, else the working directory, every file of the run was opened in
\* it, and changed is false whatever the outcome.
C6_Success ==
    /\ outcome = "exit"
    /\ result.msg # <<>>
    /\ result.msg[1] = "Completed to download assets on "

C6_AllDownloaded ==
    /\ ReleaseRequested
    /\ remoteMeta.kind = "http"
    /\ remoteMeta.status \notin {401, 404}
    /\ remoteMeta.json = "release"
    /\ \E a \in 1..Len(remoteMeta.assets) : Matches(remoteMeta.assets[a].name)
    /\ \A a \in 1..Len(remoteMeta.assets) :
          Matches(remoteMeta.assets[a].name) =>
              LET x == remoteMeta.assets[a].id
              IN /\ remoteAsset[x].kind = "http"
                 /\ remoteAsset[x].status = 200
                 /\ ~remoteAsset[x].broken
                 /\ \E p \in 1..Len(trace) : \E n \in Names : WrittenAt(p, x, n)

C6_SuccessExactly ==
    /\ result.changed = FALSE
    /\ pc = "done" => (C6_Success <=> C6_AllDownloaded)
    /\ (pc = "done" /\ C6_Success) =>
          /\ result.msg = <<"Completed to download assets on ", DestDir>>
          /\ \A p \in 1..Len(trace) : trace[p].op = "open" => trace[p].arg[1] = DestDir

C6_Witness ==
    /\ pc = "done"
    /\ C6_Success
    /\ params.output_path.some
    /\ Len(Opens(trace)) = 2

\* C7: a second run with the same parameters against the same remote ends with
\* the same outcome and message as the first, opens the same files in the same
\* order, and leaves every file with the content it had after the first run.
C7_Idempotent ==
    (run = 2 /\ pc = "done") =>
        /\ outcome = prev.outcome
        /\ result = prev.result
        /\ Opens(trace) = Opens(prev.trace)
        /\ fs = prev.fs

C7_Witness ==
    /\ run = 2
    /\ pc = "done"
    /\ C6_Success
    /\ Len(Opens(trace)) = 2
    /\ \E p \in Paths : fs[p] = File(TRUE, <<"x", "y">>)

\* C8: every finished invocation has exactly one outcome, reported through
\* exit_json or fail_json with a message, as the last thing the run does.
C8_EveryEndIsAnOutcome ==
    pc = "done" =>
        /\ outcome \in {"exit", "fail"}
        /\ trace[Len(trace)].op \in {"exit_json", "fail_json"}
        /\ trace[Len(trace)].arg = result.msg
        /\ \A p \in 1..(Len(trace) - 1) : ~IsTerminal(trace[p])

\* C9: the release request comes first and once; the asset requests are those
\* of the matching assets, once per id, in the order of each id's first matching
\* entry of the release's list, with none skipped; between one asset request
\* and the next the file is opened, written whole and closed; and whatever ends
\* the run (a failure included) is the last event of the run.
C9_FirstMatch(x) ==
    CHOOSE i \in 1..Len(remoteMeta.assets) :
        /\ remoteMeta.assets[i].id = x
        /\ Matches(remoteMeta.assets[i].name)
        /\ \A j \in 1..(i - 1) :
              ~(remoteMeta.assets[j].id = x /\ Matches(remoteMeta.assets[j].name))

C9_MatchedIds ==
    {x \in Ids : \E i \in 1..Len(remoteMeta.assets) :
                    remoteMeta.assets[i].id = x /\ Matches(remoteMeta.assets[i].name)}

C9_Sequential ==
    /\ \A p \in 1..Len(trace) :
          /\ (p = 1 /\ ~IsTerminal(trace[p])) => trace[p] = Ev("get", ExpectedReleaseUrl)
          /\ (p > 1 /\ trace[p].op = "get") => IsAssetGet(trace[p])
          /\ IsTerminal(trace[p]) => p = Len(trace)
    /\ \A g \in 1..Len(AssetGets(trace)) :
          \E x \in C9_MatchedIds :
              /\ AssetGets(trace)[g].arg = AssetUrl(x)
              /\ Cardinality({z \in C9_MatchedIds :
                                 C9_FirstMatch(z) < C9_FirstMatch(x)}) = g - 1
    /\ \A p, q \in 1..Len(trace) :
          (/\ p < q
           /\ IsAssetGet(trace[p])
           /\ IsAssetGet(trace[q])
           /\ \A m \in (p + 1)..(q - 1) : ~IsAssetGet(trace[m])) =>
              \E x \in Ids : \E n \in Names :
                  /\ WrittenAt(p, x, n)
                  /\ q = p + Len(remoteAsset[x].chunks) + 3
    /\ (pc = "download" \/ pc = "done") => ~f.some

C9_Witness ==
    /\ pc = "done"
    /\ outcome = "fail"
    /\ Len(AssetGets(trace)) = 2
    /\ params.asset_names = Some(<<"a", "A">>)
    /\ remoteMeta.assets[1].id > remoteMeta.assets[2].id
    /\ Len(Opens(trace)) = 1

\* C10: in check mode the run ends at once with the non-failure outcome
\* {changed: false, msg: ""}: no request is issued, no file is opened or written.
C10_CheckModeDoesNothing ==
    (params.check_mode /\ pc # "start") =>
        /\ pc = "done"
        /\ outcome = "exit"
        /\ result = [changed |-> FALSE, msg |-> <<"">>]
        /\ trace = <<Ev("exit_json", <<"">>)>>
        /\ fs = fs0
        /\ remoteMeta.kind = "unset"
        /\ \A x \in Ids : remoteAsset[x].kind = "unset"

C10_Witness ==
    /\ params.check_mode
    /\ pc = "done"
    /\ params.asset_names.some
    /\ params.output_path = Some("nodir")
====
